---------------------------- MODULE Spec2Model ----------------------------
(***************************************************************************)
(* Signed URLs (package surl): a Signer embeds an expiry and a keyed hash  *)
(* of the URL in the URL itself (Sign) and later validates both (Verify).  *)
(*                                                                         *)
(* Text is modelled as a sequence of one-character strings.  A URL in its  *)
(* textual form is the record of its scheme, host, path text and query     *)
(* text, the query text being the sequence of its key=value pairs in the   *)
(* order they are written.                                                 *)
(***************************************************************************)
EXTENDS Integers, Sequences, FiniteSets, TLC

(***************************************************************************)
(* Bounds of the model.                                                    *)
(***************************************************************************)
\* the clock runs from 0 to MaxTime ticks
MaxTime == 3
\* clock ticks per second: time.Now() is finer than the one second of Unix()
TicksPerSec == 2
\* bytes of a digest (blake2b-256 has 32; 32 and 2 leave the same remainder
\* modulo 3, so that the last base64 character carries 4 bits of the digest)
HashSize == 2
\* goroutines that call Sign and Verify on one Signer at the same time
NumGoroutines == 2
\* the integers 0..MaxInt are encoded and decoded, and some of 64 bits
MaxInt == 60
\* the options given to New at most
MaxOptions == 3

(***************************************************************************)
(* Text helpers (package strings).                                         *)
(***************************************************************************)
HasPrefix(s, prefix) ==
    /\ Len(prefix) <= Len(s)
    /\ SubSeq(s, 1, Len(prefix)) = prefix

\* the text of s from its n+1st character: s[n:]
From(s, n) == SubSeq(s, n + 1, Len(s))

\* index of the first occurrence of character c in s, 0 when there is none
Index(s, c) ==
    IF \E i \in 1..Len(s) : s[i] = c
    THEN CHOOSE i \in 1..Len(s) : s[i] = c /\ \A j \in 1..(i - 1) : s[j] # c
    ELSE 0

\* strings.Cut(s, sep) for a one-character separator
Cut(s, sep) ==
    LET i == Index(s, sep) IN
    IF i = 0 THEN [before |-> s, after |-> <<>>, found |-> FALSE]
    ELSE [before |-> SubSeq(s, 1, i - 1), after |-> From(s, i), found |-> TRUE]

(***************************************************************************)
(* path.Join and path.Clean (package path), on slash-separated text.       *)
(***************************************************************************)
RECURSIVE Segments(_)
\* the segments of a path: the texts between its slashes
Segments(s) ==
    LET c == Cut(s, "/") IN
    IF c.found THEN <<c.before>> \o Segments(c.after) ELSE <<s>>

RECURSIVE CleanSegments(_, _, _)
\* Clean's pass over the segments: empty and "." segments are dropped, ".."
\* removes the segment before it (and is kept by a relative path, dropped at
\* the root, when there is none)
CleanSegments(segs, out, rooted) ==
    IF segs = <<>> THEN out
    ELSE LET s == Head(segs)
             rest == Tail(segs)
         IN  IF s = <<>> \/ s = <<".">> THEN CleanSegments(rest, out, rooted)
             ELSE IF s = <<".", ".">>
             THEN IF out # <<>> /\ out[Len(out)] # <<".", ".">>
                  THEN CleanSegments(rest, SubSeq(out, 1, Len(out) - 1), rooted)
                  ELSE IF rooted THEN CleanSegments(rest, out, rooted)
                  ELSE CleanSegments(rest, Append(out, s), rooted)
             ELSE CleanSegments(rest, Append(out, s), rooted)

RECURSIVE JoinSegments(_)
JoinSegments(segs) ==
    IF segs = <<>> THEN <<>>
    ELSE IF Len(segs) = 1 THEN segs[1]
    ELSE segs[1] \o <<"/">> \o JoinSegments(Tail(segs))

Clean(p) ==
    IF p = <<>> THEN <<".">>
    ELSE LET rooted == p[1] = "/"
             body == JoinSegments(CleanSegments(Segments(p), <<>>, rooted))
         IN  IF rooted THEN <<"/">> \o body
             ELSE IF body = <<>> THEN <<".">> ELSE body

\* path.Join(a, b): empty elements are ignored, the result is Cleaned
Join(a, b) ==
    IF a = <<>> /\ b = <<>> THEN <<>>
    ELSE IF a = <<>> THEN Clean(b)
    ELSE IF b = <<>> THEN Clean(a)
    ELSE Clean(a \o <<"/">> \o b)

(***************************************************************************)
(* URLs (package net/url).  A parsed URL has the fields Scheme, Host, Path *)
(* and RawQuery.  The characters of the model need no escaping.            *)
(***************************************************************************)
\* url.ParseRequestURI: the text must be an absolute URI or an absolute path
ParseRequestURI(text) ==
    IF text.scheme = "" /\ (text.host # "" \/ text.path = <<>> \/ text.path[1] # "/")
    THEN [err |-> TRUE,
          u |-> [Scheme |-> "", Host |-> "", Path |-> <<>>, RawQuery |-> <<>>]]
    ELSE [err |-> FALSE,
          u |-> [Scheme |-> text.scheme, Host |-> text.host,
                 Path |-> text.path, RawQuery |-> text.query]]

\* (*url.URL).String: a path that does not begin with a slash is written after
\* one when the URL has a host
String(u) ==
    [scheme |-> u.Scheme,
     host   |-> u.Host,
     path   |-> IF u.Path # <<>> /\ u.Path[1] # "/" /\ u.Host # ""
                THEN <<"/">> \o u.Path ELSE u.Path,
     query  |-> u.RawQuery]

\* the query keys of the model, in the order of their texts
KeyOrder == <<"expiry", "foo", "page", "signature">>

KeyRank(k) == CHOOSE i \in 1..Len(KeyOrder) : KeyOrder[i] = k

\* (*url.URL).Query: the values of each key, in the order they are written
Query(u) == u.RawQuery

\* url.Values.Add
Add(q, key, value) == Append(q, <<key, value>>)

\* url.Values.Get: the first value of the key, or the empty text
Get(q, key) ==
    IF \E i \in 1..Len(q) : q[i][1] = key
    THEN q[CHOOSE i \in 1..Len(q) :
                q[i][1] = key /\ \A j \in 1..(i - 1) : q[j][1] # key][2]
    ELSE <<>>

\* url.Values.Del: every value of the key is removed
Del(q, key) == SelectSeq(q, LAMBDA kv : kv[1] # key)

RECURSIVE InsertByKey(_, _)
\* kv after the last pair of sorted whose key is not greater than kv's
InsertByKey(sorted, kv) ==
    IF sorted = <<>> THEN <<kv>>
    ELSE IF KeyRank(sorted[Len(sorted)][1]) <= KeyRank(kv[1])
    THEN Append(sorted, kv)
    ELSE Append(InsertByKey(SubSeq(sorted, 1, Len(sorted) - 1), kv),
                sorted[Len(sorted)])

RECURSIVE SortByKey(_)
SortByKey(q) ==
    IF q = <<>> THEN <<>>
    ELSE InsertByKey(SortByKey(SubSeq(q, 1, Len(q) - 1)), q[Len(q)])

\* url.Values.Encode: "key=value" pairs sorted by key, the values of one key in
\* their own order
Encode(q) == SortByKey(q)

(***************************************************************************)
(* Integer encodings of the expiry (int_encoding.go).                      *)
(***************************************************************************)
DecimalDigits == <<"0", "1", "2", "3", "4", "5", "6", "7", "8", "9">>

\* base58.FlickrEncoding
FlickrAlphabet ==
    <<"1", "2", "3", "4", "5", "6", "7", "8", "9",
      "a", "b", "c", "d", "e", "f", "g", "h", "i", "j", "k", "m", "n", "o",
      "p", "q", "r", "s", "t", "u", "v", "w", "x", "y", "z",
      "A", "B", "C", "D", "E", "F", "G", "H", "J", "K", "L", "M", "N", "P",
      "Q", "R", "S", "T", "U", "V", "W", "X", "Y", "Z">>

RECURSIVE FormatDigits(_, _)
\* the digits of i >= 0 in base Len(alphabet), most significant first
FormatDigits(i, alphabet) ==
    IF i < Len(alphabet) THEN <<alphabet[i + 1]>>
    ELSE FormatDigits(i \div Len(alphabet), alphabet)
            \o <<alphabet[(i % Len(alphabet)) + 1]>>

DigitValue(c, alphabet) ==
    (CHOOSE i \in 1..Len(alphabet) : alphabet[i] = c) - 1

IsDigit(c, alphabet) == \E i \in 1..Len(alphabet) : alphabet[i] = c

RECURSIVE ParseDigits(_, _)
ParseDigits(s, alphabet) ==
    IF s = <<>> THEN 0
    ELSE ParseDigits(SubSeq(s, 1, Len(s) - 1), alphabet) * Len(alphabet)
            + DigitValue(s[Len(s)], alphabet)

\* stdIntEncoding(10).Encode: strconv.FormatInt(i, 10)
stdIntEncoding_Encode(i) ==
    IF i < 0 THEN <<"-">> \o FormatDigits(0 - i, DecimalDigits)
    ELSE FormatDigits(i, DecimalDigits)

\* stdIntEncoding(10).Decode: strconv.ParseInt(s, 10, 64), which takes one
\* leading sign and then at least one digit
stdIntEncoding_Decode(s) ==
    LET signed == s # <<>> /\ s[1] \in {"+", "-"}
        digits == IF signed THEN Tail(s) ELSE s
    IN  IF digits = <<>> \/ \E i \in 1..Len(digits) : ~IsDigit(digits[i], DecimalDigits)
        THEN [err |-> TRUE, val |-> 0]
        ELSE [err |-> FALSE,
              val |-> IF signed /\ s[1] = "-"
                      THEN 0 - ParseDigits(digits, DecimalDigits)
                      ELSE ParseDigits(digits, DecimalDigits)]

\* base58Encoding.Encode
base58Encoding_Encode(i) == FormatDigits(i, FlickrAlphabet)

\* base58Encoding.Decode: every character must be of the alphabet
base58Encoding_Decode(s) ==
    IF s = <<>> \/ \E i \in 1..Len(s) : ~IsDigit(s[i], FlickrAlphabet)
    THEN [err |-> TRUE, val |-> 0]
    ELSE [err |-> FALSE, val |-> ParseDigits(s, FlickrAlphabet)]

\* the intEncoding a Signer embeds
intEncoding_Encode(s, i) ==
    IF s.intEncoding = "base58" THEN base58Encoding_Encode(i)
    ELSE stdIntEncoding_Encode(i)

intEncoding_Decode(s, text) ==
    IF s.intEncoding = "base58" THEN base58Encoding_Decode(text)
    ELSE stdIntEncoding_Decode(text)

(***************************************************************************)
(* The encoders at the width of int64.  An int64 is the sequence of its    *)
(* digits in base LimbBase, most significant first and without leading     *)
(* zeroes: <<0>> is 0 and <<35, 759, 5200>> is 3507595200.                 *)
(***************************************************************************)
LimbBase == 10^4

RECURSIVE ToLimbs(_)
ToLimbs(n) ==
    IF n < LimbBase THEN <<n>> ELSE ToLimbs(n \div LimbBase) \o <<n % LimbBase>>

\* math.MaxInt64, 9223372036854775807
MaxInt64 == <<922, 3372, 368, 5477, 5807>>

RECURSIVE Leading(_)
\* x without its leading zeroes
Leading(x) == IF Len(x) > 1 /\ x[1] = 0 THEN Leading(Tail(x)) ELSE x

RECURSIVE DivLimbs(_, _, _)
\* the quotient and the remainder of rem * LimbBase^Len(x) + x by d
DivLimbs(x, d, rem) ==
    IF x = <<>> THEN [q |-> <<>>, r |-> rem]
    ELSE LET cur == rem * LimbBase + x[1]
             rest == DivLimbs(Tail(x), d, cur % d)
         IN  [q |-> <<cur \div d>> \o rest.q, r |-> rest.r]

RECURSIVE MulAddLimbs(_, _, _)
\* the limbs of x * m + a, with the carry out as their first
MulAddLimbs(x, m, a) ==
    IF x = <<>> THEN <<a>>
    ELSE LET low == MulAddLimbs(Tail(x), m, a)
             cur == x[1] * m + low[1]
         IN  <<cur \div LimbBase, cur % LimbBase>> \o Tail(low)

RECURSIVE GreaterLimbs(_, _)
\* x > y
GreaterLimbs(x, y) ==
    IF Len(x) # Len(y) THEN Len(x) > Len(y)
    ELSE IF x = <<>> THEN FALSE
    ELSE IF x[1] # y[1] THEN x[1] > y[1]
    ELSE GreaterLimbs(Tail(x), Tail(y))

RECURSIVE FormatLimbs(_, _)
\* the digits of x in base Len(alphabet), most significant first
FormatLimbs(x, alphabet) ==
    LET d == DivLimbs(x, Len(alphabet), 0)
        q == Leading(d.q)
    IN  IF q = <<0>> THEN <<alphabet[d.r + 1]>>
        ELSE FormatLimbs(q, alphabet) \o <<alphabet[d.r + 1]>>

RECURSIVE ParseLimbs(_, _)
ParseLimbs(s, alphabet) ==
    IF s = <<>> THEN <<0>>
    ELSE Leading(MulAddLimbs(ParseLimbs(SubSeq(s, 1, Len(s) - 1), alphabet),
                             Len(alphabet), DigitValue(s[Len(s)], alphabet)))

\* strconv.FormatInt(i, 10) of an i >= 0
FormatInt(x) == FormatLimbs(x, DecimalDigits)

\* strconv.ParseInt(s, 10, 64): one sign may lead, the digits must be decimal
\* and the value within int64; val is the magnitude and neg its sign
ParseInt(s) ==
    LET signed == s # <<>> /\ s[1] \in {"+", "-"}
        neg == signed /\ s[1] = "-"
        digits == IF signed THEN Tail(s) ELSE s
    IN  IF digits = <<>> \/ \E i \in 1..Len(digits) : ~IsDigit(digits[i], DecimalDigits)
        THEN [err |-> TRUE, val |-> <<0>>, neg |-> FALSE]
        ELSE LET v == Leading(ParseLimbs(digits, DecimalDigits)) IN
             IF GreaterLimbs(v, MaxInt64)
                    /\ ~(neg /\ v = <<922, 3372, 368, 5477, 5808>>)
             THEN [err |-> TRUE, val |-> v, neg |-> neg]
             ELSE [err |-> FALSE, val |-> v, neg |-> neg]

\* base58.BitcoinEncoding, the alphabet the package offers besides Flickr's
BitcoinAlphabet ==
    <<"1", "2", "3", "4", "5", "6", "7", "8", "9",
      "A", "B", "C", "D", "E", "F", "G", "H", "J", "K", "L", "M", "N", "P",
      "Q", "R", "S", "T", "U", "V", "W", "X", "Y", "Z",
      "a", "b", "c", "d", "e", "f", "g", "h", "i", "j", "k", "m", "n", "o",
      "p", "q", "r", "s", "t", "u", "v", "w", "x", "y", "z">>

\* base58Encoding.Encode, had it taken the other alphabet of the package
EncodeUint64_bitcoin(x) == FormatLimbs(x, BitcoinAlphabet)

\* base58.FlickrEncoding.EncodeUint64(uint64(i)) of an i >= 0
EncodeUint64(x) == FormatLimbs(x, FlickrAlphabet)

\* int64 of base58.FlickrEncoding.DecodeUint64
DecodeUint64(s) ==
    IF s = <<>> \/ \E i \in 1..Len(s) : ~IsDigit(s[i], FlickrAlphabet)
    THEN [err |-> TRUE, val |-> <<0>>, neg |-> FALSE]
    ELSE [err |-> FALSE, val |-> ParseLimbs(s, FlickrAlphabet), neg |-> FALSE]

(***************************************************************************)
(* The keyed hash and the base64 text of a signature.                      *)
(*                                                                         *)
(* The hash is an ideal one: the digest of a key and the bytes written is  *)
(* a value that names exactly that key and those bytes, so that different  *)
(* inputs have different digests.                                          *)
(*                                                                         *)
(* The characters of the base64 text of a digest are symbolic: the i-th    *)
(* character of the text of digest d, with the value low in the bits of    *)
(* the character that lie beyond the last byte of the digest.  Encoding    *)
(* writes zeroes there; base64.RawURLEncoding is not Strict, so decoding   *)
(* does not look at them.                                                  *)
(***************************************************************************)
RECURSIVE Concat(_)
\* the characters of a text as one string
Concat(s) == IF s = <<>> THEN "" ELSE s[1] \o Concat(Tail(s))

RECURSIVE QueryBytes(_)
QueryBytes(q) ==
    IF q = <<>> THEN ""
    ELSE q[1][1] \o "=" \o Concat(q[1][2])
            \o (IF Len(q) > 1 THEN "&" ELSE "") \o QueryBytes(Tail(q))

\* []byte(payload): the bytes of the text of a URL
Bytes(text) ==
    (IF text.scheme # "" THEN text.scheme \o ":" ELSE "")
    \o (IF text.scheme # "" \/ text.host # ""
        THEN IF text.host # "" \/ text.path # <<>> THEN "//" ELSE ""
        ELSE "")
    \o text.host
    \o Concat(text.path)
    \o (IF text.query # <<>> THEN "?" \o QueryBytes(text.query) ELSE "")

\* hash.Sum(nil) of a hash keyed with key after written was written to it
Sum(key, written) == "H(" \o key \o "," \o written \o ")"

\* characters of the unpadded base64 text of HashSize bytes
EncodedLen == (8 * HashSize + 5) \div 6

\* bits of the last character that hold no bit of the digest
TrailingBits == 6 * EncodedLen - 8 * HashSize

TrailingValues == 0..((2 ^ TrailingBits) - 1)

Base64Char(d, i, low) == d \o "[" \o ToString(i) \o "." \o ToString(low) \o "]"

\* base64.RawURLEncoding.EncodeToString
EncodeToString(d) == [i \in 1..EncodedLen |-> Base64Char(d, i, 0)]

\* the characters of the model that are not of the URL-safe base64 alphabet
NotBase64 == {"/", ".", "$", "+"}

\* base64.RawURLEncoding.DecodeString fails on a character that is not of the
\* alphabet and on a length that leaves a single character over
DecodeString(text) ==
    [err |-> \/ \E i \in 1..Len(text) : text[i] \in NotBase64
             \/ Len(text) % 4 = 1,
     text |-> text]

\* subtle.ConstantTimeCompare(sig, compare) = 1, for sig the bytes decoded
\* from a text and compare a digest: the text is that of the digest, whatever
\* the trailing bits of its last character
ConstantTimeCompare(sig, compare) ==
    /\ Len(sig.text) = EncodedLen
    /\ \A i \in 1..(EncodedLen - 1) : sig.text[i] = Base64Char(compare, i, 0)
    /\ \E low \in TrailingValues :
            sig.text[EncodedLen] = Base64Char(compare, EncodedLen, low)

\* Signer.sign, had it not reset a dirty context
sign_noReset(s, data) ==
    LET written == s.hash \o data
    IN  [sum |-> Sum(s.key, written), hash |-> written, dirty |-> TRUE]

\* Signer.sign: the context is reset when dirty, the data written and summed
sign(s, data) ==
    LET reset == IF s.dirty THEN "" ELSE s.hash
        written == reset \o data
    IN  [sum |-> Sum(s.key, written), hash |-> written, dirty |-> TRUE]

(***************************************************************************)
(* The query formatter: expiry and signature are query parameters.         *)
(***************************************************************************)
queryFormatter_addExpiry(u, expiry) ==
    [u EXCEPT !.RawQuery = Encode(Add(Query(u), "expiry", expiry))]

\* queryFormatter.buildPayload, had it left the other parameters out of every
\* payload
queryFormatter_buildPayload_skipsQuery(u, opts) ==
    String([u EXCEPT !.RawQuery =
                Encode(<< <<"expiry", Get(Query(u), "expiry")>> >>)])

\* queryFormatter.buildPayload, had it left the scheme out of every payload
queryFormatter_buildPayload_dropsScheme(u, opts) ==
    String([(IF opts.skipQuery
             THEN [u EXCEPT !.RawQuery =
                      Encode(<< <<"expiry", Get(Query(u), "expiry")>> >>)]
             ELSE u) EXCEPT !.Scheme = ""])

queryFormatter_buildPayload(u, opts) ==
    String(IF opts.skipQuery
           THEN [u EXCEPT !.RawQuery =
                    Encode(<< <<"expiry", Get(Query(u), "expiry")>> >>)]
           ELSE u)

queryFormatter_addSignature(u, sig) ==
    [u EXCEPT !.RawQuery = Encode(Add(Query(u), "signature", sig))]

\* queryFormatter.extractSignature, had it not looked for an empty signature
queryFormatter_extractSignature_unchecked(u) ==
    LET q == Query(u) IN
    [err |-> "", text |-> Get(q, "signature"),
     u |-> [u EXCEPT !.RawQuery = Encode(Del(q, "signature"))]]

queryFormatter_extractSignature(u) ==
    LET q == Query(u)
        sig == Get(q, "signature")
    IN  IF sig = <<>> THEN [err |-> "ErrInvalidFormat", text |-> <<>>, u |-> u]
        ELSE [err |-> "", text |-> sig,
              u |-> [u EXCEPT !.RawQuery = Encode(Del(q, "signature"))]]

queryFormatter_extractExpiry(u) ==
    LET q == Query(u)
        expiry == Get(q, "expiry")
    IN  IF expiry = <<>> THEN [err |-> "ErrInvalidFormat", text |-> <<>>, u |-> u]
        ELSE [err |-> "", text |-> expiry,
              u |-> [u EXCEPT !.RawQuery = Encode(Del(q, "expiry"))]]

(***************************************************************************)
(* The path formatter: the path is /<signature>.<expiry><path>.            *)
(***************************************************************************)
pathFormatter_addExpiry(u, expiry) == [u EXCEPT !.Path = expiry \o @]

\* the scheme is left out of the payload when skipScheme is set
pathFormatter_skipScheme(u, opts) ==
    IF opts.skipScheme THEN [u EXCEPT !.Scheme = ""] ELSE u

\* pathFormatter.BuildPayload, had it kept the query in every payload
pathFormatter_buildPayload_keepsQuery(u, opts) ==
    String(pathFormatter_skipScheme(u, opts))

pathFormatter_buildPayload(u, opts) ==
    String(pathFormatter_skipScheme(
              IF opts.skipQuery THEN [u EXCEPT !.RawQuery = <<>>] ELSE u, opts))

pathFormatter_addSignature(u, sig) ==
    [u EXCEPT !.Path = <<"/">> \o sig \o <<".">> \o @]

\* sig[1:] of an empty sig is out of range: the call panics
pathFormatter_extractSignature(u) ==
    LET c == Cut(u.Path, ".") IN
    IF ~c.found THEN [err |-> "ErrInvalidFormat", text |-> <<>>, u |-> u]
    ELSE IF c.before = <<>> THEN [err |-> "panic", text |-> <<>>, u |-> u]
    ELSE [err |-> "", text |-> Tail(c.before), u |-> [u EXCEPT !.Path = c.after]]

pathFormatter_extractExpiry(u) ==
    LET c == Cut(u.Path, "/") IN
    IF ~c.found THEN [err |-> "ErrInvalidFormat", text |-> <<>>, u |-> u]
    ELSE [err |-> "", text |-> c.before,
          u |-> [u EXCEPT !.Path = <<"/">> \o c.after]]

(***************************************************************************)
(* The formatter a Signer embeds.                                          *)
(***************************************************************************)
addExpiry(s, u, expiry) ==
    IF s.formatter = "path" THEN pathFormatter_addExpiry(u, expiry)
    ELSE queryFormatter_addExpiry(u, expiry)

buildPayload(s, u) ==
    IF s.formatter = "path" THEN pathFormatter_buildPayload(u, s.payloadOptions)
    ELSE queryFormatter_buildPayload(u, s.payloadOptions)

addSignature(s, u, sig) ==
    IF s.formatter = "path" THEN pathFormatter_addSignature(u, sig)
    ELSE queryFormatter_addSignature(u, sig)

extractSignature(s, u) ==
    IF s.formatter = "path" THEN pathFormatter_extractSignature(u)
    ELSE queryFormatter_extractSignature(u)

extractExpiry(s, u) ==
    IF s.formatter = "path" THEN pathFormatter_extractExpiry(u)
    ELSE queryFormatter_extractExpiry(u)

(***************************************************************************)
(* Signer.Sign and Signer.Verify, as functions of the Signer s (its        *)
(* options, key, hash context and dirty flag), the text and the time.      *)
(* Each yields its result with the hash context and dirty flag it leaves.  *)
(***************************************************************************)
NoText == [scheme |-> "", host |-> "", path |-> <<>>, query |-> <<>>]

\* expiry.Unix(): whole seconds of a time in ticks
Unix(t) == t \div TicksPerSec

\* the test of the clock, had Verify asked whether the time is before expiry
After_before(clock, expiry) == clock < expiry * TicksPerSec

\* time.Now().After(time.Unix(expiry, 0))
After(clock, expiry) == clock > expiry * TicksPerSec

\* Signer.Sign, had it put the prefix before the path ahead of signing
SignResult_prefixFirst(s, unsigned, expiry) ==
    LET p == ParseRequestURI(unsigned) IN
    IF p.err
    THEN [err |-> "InvalidURL", text |-> NoText, sum |-> "",
          hash |-> s.hash, dirty |-> s.dirty]
    ELSE LET encodedExpiry == intEncoding_Encode(s, Unix(expiry))
             u0 == addExpiry(s, p.u, encodedExpiry)
             u1 == IF s.prefix # <<>>
                   THEN [u0 EXCEPT !.Path = Join(s.prefix, u0.Path)]
                   ELSE u0
             payload == buildPayload(s, u1)
             h == sign(s, Bytes(payload))
             encodedSig == EncodeToString(h.sum)
             u2 == addSignature(s, u1, encodedSig)
         IN  [err |-> "", text |-> String(u2), sum |-> h.sum,
              hash |-> h.hash, dirty |-> h.dirty]

\* Signer.Sign, had it not looked at the error of url.ParseRequestURI
SignResult_unchecked(s, unsigned, expiry) ==
    LET p == ParseRequestURI(unsigned)
        encodedExpiry == intEncoding_Encode(s, Unix(expiry))
        u1 == addExpiry(s, p.u, encodedExpiry)
        payload == buildPayload(s, u1)
        h == sign(s, Bytes(payload))
        encodedSig == EncodeToString(h.sum)
        u2 == addSignature(s, u1, encodedSig)
        u3 == IF s.prefix # <<>>
              THEN [u2 EXCEPT !.Path = Join(s.prefix, u2.Path)]
              ELSE u2
    IN  [err |-> "", text |-> String(u3), sum |-> h.sum,
         hash |-> h.hash, dirty |-> h.dirty]

\* Sign, had buildPayload been given the URL itself and not a copy of it
SignResult_sharedURL(s, unsigned, expiry) ==
    LET p == ParseRequestURI(unsigned) IN
    IF p.err
    THEN [err |-> "InvalidURL", text |-> NoText, sum |-> "",
          hash |-> s.hash, dirty |-> s.dirty]
    ELSE LET encodedExpiry == intEncoding_Encode(s, Unix(expiry))
             u1 == addExpiry(s, p.u, encodedExpiry)
             payload == buildPayload(s, u1)
             h == sign(s, Bytes(payload))
             encodedSig == EncodeToString(h.sum)
             shared == [scheme |-> payload.scheme, host |-> payload.host,
                        path |-> u1.Path, query |-> payload.query]
             u2 == addSignature(s, ParseRequestURI(shared).u, encodedSig)
             u3 == IF s.prefix # <<>>
                   THEN [u2 EXCEPT !.Path = Join(s.prefix, u2.Path)]
                   ELSE u2
         IN  [err |-> "", text |-> String(u3), sum |-> h.sum,
              hash |-> h.hash, dirty |-> h.dirty]

SignResult(s, unsigned, expiry) ==
    LET p == ParseRequestURI(unsigned) IN
    IF p.err
    THEN [err |-> "InvalidURL", text |-> NoText, sum |-> "",
          hash |-> s.hash, dirty |-> s.dirty]
    ELSE LET encodedExpiry == intEncoding_Encode(s, Unix(expiry))
             u1 == addExpiry(s, p.u, encodedExpiry)
             payload == buildPayload(s, u1)
             h == sign(s, Bytes(payload))
             encodedSig == EncodeToString(h.sum)
             u2 == addSignature(s, u1, encodedSig)
             u3 == IF s.prefix # <<>>
                   THEN [u2 EXCEPT !.Path = Join(s.prefix, u2.Path)]
                   ELSE u2
         IN  [err |-> "", text |-> String(u3), sum |-> h.sum,
              hash |-> h.hash, dirty |-> h.dirty]

\* Signer.Verify, had it not looked at the prefix before removing it
VerifyResult_noPrefixCheck(s, signedText, clock) ==
    LET p == ParseRequestURI(signedText)
        untouched(e) == [err |-> e, expiry |-> 0, hash |-> s.hash, dirty |-> s.dirty]
    IN
    IF p.err THEN untouched("InvalidURL")
    ELSE
    LET u1 == [p.u EXCEPT !.Path = From(@, Len(s.prefix))]
        es == extractSignature(s, u1)
    IN
    IF es.err # "" THEN untouched(es.err)
    ELSE
    LET sig == DecodeString(es.text) IN
    IF sig.err THEN untouched("ErrInvalidSignature")
    ELSE
    LET payload == buildPayload(s, es.u)
        h == sign(s, Bytes(payload))
        hashed(e, x) == [err |-> e, expiry |-> x, hash |-> h.hash, dirty |-> h.dirty]
    IN
    IF ~ConstantTimeCompare(sig, h.sum) THEN hashed("ErrInvalidSignature", 0)
    ELSE
    LET ee == extractExpiry(s, es.u) IN
    IF ee.err # "" THEN hashed(ee.err, 0)
    ELSE
    LET expiry == intEncoding_Decode(s, ee.text) IN
    IF expiry.err THEN hashed("DecodeError", 0)
    ELSE IF After(clock, expiry.val) THEN hashed("ErrExpired", expiry.val)
    ELSE hashed("ok", expiry.val)

\* Signer.Verify, had it looked at the expiry before comparing the signatures
VerifyResult_expiryFirst(s, signedText, clock) ==
    LET p == ParseRequestURI(signedText)
        untouched(e) == [err |-> e, expiry |-> 0, hash |-> s.hash, dirty |-> s.dirty]
    IN
    IF p.err THEN untouched("InvalidURL")
    ELSE IF ~HasPrefix(p.u.Path, s.prefix) THEN untouched("ErrInvalidFormat")
    ELSE
    LET u1 == [p.u EXCEPT !.Path = From(@, Len(s.prefix))]
        es == extractSignature(s, u1)
    IN
    IF es.err # "" THEN untouched(es.err)
    ELSE
    LET sig == DecodeString(es.text) IN
    IF sig.err THEN untouched("ErrInvalidSignature")
    ELSE
    LET payload == buildPayload(s, es.u)
        h == sign(s, Bytes(payload))
        hashed(e, x) == [err |-> e, expiry |-> x, hash |-> h.hash, dirty |-> h.dirty]
        ee == extractExpiry(s, es.u)
    IN
    IF ee.err # "" THEN hashed(ee.err, 0)
    ELSE
    LET expiry == intEncoding_Decode(s, ee.text) IN
    IF expiry.err THEN hashed("DecodeError", 0)
    ELSE IF After(clock, expiry.val) THEN hashed("ErrExpired", expiry.val)
    ELSE IF ~ConstantTimeCompare(sig, h.sum) THEN hashed("ErrInvalidSignature", 0)
    ELSE hashed("ok", expiry.val)

\* Signer.Verify, had it returned the error of the base64 decoder as it is
VerifyResult_decodeError(s, signedText, clock) ==
    LET p == ParseRequestURI(signedText)
        untouched(e) == [err |-> e, expiry |-> 0, hash |-> s.hash, dirty |-> s.dirty]
    IN
    IF p.err THEN untouched("InvalidURL")
    ELSE IF ~HasPrefix(p.u.Path, s.prefix) THEN untouched("ErrInvalidFormat")
    ELSE
    LET u1 == [p.u EXCEPT !.Path = From(@, Len(s.prefix))]
        es == extractSignature(s, u1)
    IN
    IF es.err # "" THEN untouched(es.err)
    ELSE
    LET sig == DecodeString(es.text) IN
    IF sig.err THEN untouched("DecodeError")
    ELSE
    LET payload == buildPayload(s, es.u)
        h == sign(s, Bytes(payload))
        hashed(e, x) == [err |-> e, expiry |-> x, hash |-> h.hash, dirty |-> h.dirty]
    IN
    IF ~ConstantTimeCompare(sig, h.sum) THEN hashed("ErrInvalidSignature", 0)
    ELSE
    LET ee == extractExpiry(s, es.u) IN
    IF ee.err # "" THEN hashed(ee.err, 0)
    ELSE
    LET expiry == intEncoding_Decode(s, ee.text) IN
    IF expiry.err THEN hashed("DecodeError", 0)
    ELSE IF After(clock, expiry.val) THEN hashed("ErrExpired", expiry.val)
    ELSE hashed("ok", expiry.val)

VerifyResult(s, signedText, clock) ==
    LET p == ParseRequestURI(signedText)
        untouched(e) == [err |-> e, expiry |-> 0, hash |-> s.hash, dirty |-> s.dirty]
    IN
    IF p.err THEN untouched("InvalidURL")
    ELSE IF ~HasPrefix(p.u.Path, s.prefix) THEN untouched("ErrInvalidFormat")
    ELSE
    LET u1 == [p.u EXCEPT !.Path = From(@, Len(s.prefix))]
        es == extractSignature(s, u1)
    IN
    IF es.err # "" THEN untouched(es.err)
    ELSE
    LET sig == DecodeString(es.text) IN
    IF sig.err THEN untouched("ErrInvalidSignature")
    ELSE
    LET payload == buildPayload(s, es.u)
        h == sign(s, Bytes(payload))
        hashed(e, x) == [err |-> e, expiry |-> x, hash |-> h.hash, dirty |-> h.dirty]
    IN
    IF ~ConstantTimeCompare(sig, h.sum) THEN hashed("ErrInvalidSignature", 0)
    ELSE
    LET ee == extractExpiry(s, es.u) IN
    IF ee.err # "" THEN hashed(ee.err, 0)
    ELSE
    LET expiry == intEncoding_Decode(s, ee.text) IN
    IF expiry.err THEN hashed("DecodeError", 0)
    ELSE IF After(clock, expiry.val) THEN hashed("ErrExpired", expiry.val)
    ELSE hashed("ok", expiry.val)

(***************************************************************************)
(* Construction: New(key, opts).                                           *)
(***************************************************************************)
\* blake2b accepts a key of at most 64 bytes
KeySize == 64

Option(name) == [name |-> name, prefix |-> <<>>]

SkipQuery == Option("SkipQuery")
SkipScheme == Option("SkipScheme")
PrefixPath(prefix) == [name |-> "PrefixPath", prefix |-> prefix]
WithQueryFormatter == Option("WithQueryFormatter")
WithPathFormatter == Option("WithPathFormatter")
WithDecimalExpiry == Option("WithDecimalExpiry")
WithBase58Expiry == Option("WithBase58Expiry")

\* an option applied to the Signer under construction
Apply(s, o) ==
    IF o.name = "SkipQuery" THEN [s EXCEPT !.payloadOptions.skipQuery = TRUE]
    ELSE IF o.name = "SkipScheme" THEN [s EXCEPT !.payloadOptions.skipScheme = TRUE]
    ELSE IF o.name = "PrefixPath" THEN [s EXCEPT !.prefix = o.prefix]
    ELSE IF o.name = "WithQueryFormatter" THEN [s EXCEPT !.formatter = "query"]
    ELSE IF o.name = "WithPathFormatter" THEN [s EXCEPT !.formatter = "path"]
    ELSE IF o.name = "WithDecimalExpiry" THEN [s EXCEPT !.intEncoding = "decimal"]
    ELSE [s EXCEPT !.intEncoding = "base58"]

RECURSIVE ApplyAll(_, _)
ApplyAll(s, opts) ==
    IF opts = <<>> THEN s ELSE ApplyAll(Apply(s, Head(opts)), Tail(opts))

\* New, had blake2b taken a key of any length
New_wholeKey(key, opts) ==
    ApplyAll([key |-> Concat(key),
              hash |-> "",
              dirty |-> FALSE,
              prefix |-> <<>>,
              payloadOptions |-> [skipQuery |-> FALSE, skipScheme |-> FALSE],
              formatter |-> "",
              intEncoding |-> ""],
             <<WithQueryFormatter, WithDecimalExpiry>> \o opts)

\* New, had it applied its defaults after the caller's options
New_defaultsLast(key, opts) ==
    ApplyAll([key |-> Concat(IF Len(key) > KeySize THEN SubSeq(key, 1, KeySize)
                             ELSE key),
              hash |-> "",
              dirty |-> FALSE,
              prefix |-> <<>>,
              payloadOptions |-> [skipQuery |-> FALSE, skipScheme |-> FALSE],
              formatter |-> "",
              intEncoding |-> ""],
             opts \o <<WithQueryFormatter, WithDecimalExpiry>>)

\* New: the hash is keyed with the first KeySize bytes of the key, the default
\* options are applied and then the caller's
New(key, opts) ==
    ApplyAll([key |-> Concat(IF Len(key) > KeySize THEN SubSeq(key, 1, KeySize)
                             ELSE key),
              hash |-> "",
              dirty |-> FALSE,
              prefix |-> <<>>,
              payloadOptions |-> [skipQuery |-> FALSE, skipScheme |-> FALSE],
              formatter |-> "",
              intEncoding |-> ""],
             <<WithQueryFormatter, WithDecimalExpiry>> \o opts)

(***************************************************************************)
(* The inputs of the model.                                                *)
(***************************************************************************)
Key == <<"k">>

Prefixes == {<<>>, <<"/", "s">>}

\* the option lists a Signer is constructed with
OptionLists ==
    { (IF f THEN <<WithPathFormatter>> ELSE <<>>)
        \o (IF e THEN <<WithBase58Expiry>> ELSE <<>>)
        \o (IF sq THEN <<SkipQuery>> ELSE <<>>)
        \o (IF ss THEN <<SkipScheme>> ELSE <<>>)
        \o (IF p # <<>> THEN <<PrefixPath(p)>> ELSE <<>>) :
      f \in BOOLEAN, e \in BOOLEAN, sq \in BOOLEAN, ss \in BOOLEAN, p \in Prefixes }

Url(path, query) ==
    [scheme |-> "https", host |-> "example.com", path |-> path, query |-> query]

\* the URLs given to Sign
UnsignedURLs ==
    { Url(<<"/", "a">>, <<>>),
      Url(<<"/", "a">>, << <<"page", <<"1">>>>, <<"foo", <<"2">>>> >>),
      Url(<<>>, <<>>),
      Url(<<"/", "a", "/">>, << <<"foo", <<"2">>>> >>),
      Url(<<"/", "a">>, << <<"expiry", <<"9">>>> >>),
      Url(<<"/", "a">>, << <<"signature", <<"X", "Y", "Z">>>> >>),
      NoText,
      [scheme |-> "", host |-> "", path |-> <<"c", "o", "d">>, query |-> <<>>] }

\* URLs that no Signer signed, given to Verify: one with the looks of a path
\* formatted URL, one with a signature that is not base64, one with an expiry
\* and no signature, and the first under the prefix of the model
ForeignURLs ==
    { [scheme |-> "http", host |-> "abc.com",
       path |-> <<"/", "M", "I", "C", ".", "1", "/", "f">>, query |-> <<>>],
      [scheme |-> "http", host |-> "abc.com",
       path |-> <<"/", "M", "$", "C", ".", "1", "/", "f">>, query |-> <<>>],
      [scheme |-> "https", host |-> "example.com",
       path |-> <<"/", "a">>, query |-> << <<"foo", <<"2">>>>, <<"expiry", <<"1">>>> >>],
      [scheme |-> "http", host |-> "abc.com",
       path |-> <<"/", "s", "/", "M", "I", "C", ".", "1", "/", "f">>, query |-> <<>>] }

\* the lifespans a URL is signed with, in ticks: none and one second
Lifespans == {0, TicksPerSec}

(***************************************************************************)
(* What the holder of a signed URL can change in it.                       *)
(***************************************************************************)
ReplaceAt(text, i, c) == [text EXCEPT ![i] = c]

LastIndexOf(q, key) ==
    CHOOSE i \in 1..Len(q) : q[i][1] = key /\ \A j \in (i + 1)..Len(q) : q[j][1] # key

\* characters of the path before the signature, under the path formatter
SigOffset(s) == Len(s.prefix) + 1

\* the signature text Sign embedded in a signed URL
EmbeddedSignature(s, text) ==
    IF s.formatter = "path"
    THEN SubSeq(text.path, SigOffset(s) + 1, SigOffset(s) + EncodedLen)
    ELSE text.query[LastIndexOf(text.query, "signature")][2]

WithSignature(s, text, sig) ==
    IF s.formatter = "path"
    THEN [text EXCEPT !.path = SubSeq(@, 1, SigOffset(s)) \o sig
                                \o From(@, SigOffset(s) + EncodedLen)]
    ELSE [text EXCEPT !.query[LastIndexOf(text.query, "signature")][2] = sig]

\* the expiry text Sign embedded in a signed URL, encodedExpiry
EmbeddedExpiry(s, text, encodedExpiry) ==
    IF s.formatter = "path"
    THEN SubSeq(text.path, SigOffset(s) + EncodedLen + 2,
                SigOffset(s) + EncodedLen + 1 + Len(encodedExpiry))
    ELSE text.query[LastIndexOf(text.query, "expiry")][2]

WithExpiry(s, text, encodedExpiry, other) ==
    IF s.formatter = "path"
    THEN [text EXCEPT !.path = SubSeq(@, 1, SigOffset(s) + EncodedLen + 1) \o other
                                \o From(@, SigOffset(s) + EncodedLen + 1
                                             + Len(encodedExpiry))]
    ELSE [text EXCEPT !.query[LastIndexOf(text.query, "expiry")][2] = other]

\* the query parameters other than expiry and signature
Others(q) == {i \in 1..Len(q) : q[i][1] \notin {"expiry", "signature"}}

Swap(q, i, j) == [q EXCEPT ![i] = q[j], ![j] = q[i]]

Remove(q, i) == SubSeq(q, 1, i - 1) \o From(q, i)

(***************************************************************************)
(* State.                                                                  *)
(***************************************************************************)
VARIABLES
    signer,     \* the Signer: its options, key, hash context and dirty flag
    now,        \* the clock, in ticks
    unsigned,   \* the URL given to Sign
    lifespan,   \* the lifespan it was signed with: its expiry is signedAt + lifespan
    signedAt,   \* the time of the call of Sign
    signErr,    \* "none" before Sign is called, then its error or ""
    signed,     \* the URL Sign returned
    sum,        \* the digest Sign embedded in it
    cur,        \* the URL in the hands of its holder
    tamper,     \* what the holder changed in it
    verdict,    \* the result of the last Verify of cur at the time now, or "none"
    decoded     \* the expiry that Verify decoded

\* Goroutines that call Sign and Verify on one Signer, each of which calls
\* Signer.sign with its payload, step by step.
VARIABLES
    givenKey,   \* the key New was given
    peerKey,    \* the key another Signer was given
    mu,         \* Signer.mu: the goroutine that holds it, or 0
    pc,         \* where each goroutine is in Signer.sign
    data,       \* the payload each goroutine signs
    result      \* the digest Signer.sign returned to each goroutine

VARIABLES
    enc,        \* an integer, the encoder given it, its text and that decoded
    applied,    \* the options New has applied after the defaults
    fmt         \* a URL in the hands of a formatter, and what was taken from it

otherVars == <<givenKey, peerKey, mu, pc, data, result, enc, applied, fmt>>

vars == <<signer, now, unsigned, lifespan, signedAt, signErr, signed, sum, cur,
          tamper, verdict, decoded, givenKey, peerKey, mu, pc, data, result,
          enc, applied, fmt>>

Goroutines == 1..NumGoroutines

\* no goroutine is in Signer.sign
Idle ==
    /\ mu = 0
    /\ pc = [g \in Goroutines |-> "idle"]
    /\ data = [g \in Goroutines |-> ""]
    /\ result = [g \in Goroutines |-> ""]

\* no integer was given to an encoder
NoEnc == [at |-> "none", encoding |-> "", input |-> <<>>, text |-> <<>>,
          err |-> FALSE, output |-> <<>>]

NoURL == [Scheme |-> "", Host |-> "", Path |-> <<>>, RawQuery |-> <<>>]

\* no URL was given to a formatter
NoFmt == [at |-> "none", formatter |-> "", expiry |-> <<>>, sig |-> <<>>,
          given |-> NoURL, withExpiry |-> NoURL, u |-> NoURL,
          err |-> "", gotSig |-> <<>>, gotExpiry |-> <<>>]

Unapplied == enc = NoEnc /\ fmt = NoFmt

\* no URL was signed or verified
Unused ==
    /\ now = 0
    /\ unsigned = NoText
    /\ lifespan = 0
    /\ signedAt = 0
    /\ signErr = "none"
    /\ signed = NoText
    /\ sum = ""
    /\ cur = NoText
    /\ tamper = "none"
    /\ verdict = "none"
    /\ decoded = 0

Init ==
    /\ givenKey = Key
    /\ peerKey = Key
    /\ Idle
    /\ Unapplied
    /\ applied \in OptionLists
    /\ signer = New(Key, applied)
    /\ Unused

\* the clock advances
Tick ==
    /\ now < MaxTime
    /\ now' = now + 1
    /\ verdict' = "none"
    /\ decoded' = 0
    /\ UNCHANGED <<signer, unsigned, lifespan, signedAt, signErr, signed, sum, cur,
                   tamper>>
    /\ UNCHANGED otherVars

\* signer.Sign(u, time.Now().Add(l)), called during the first second
SignURL(u, l) ==
    /\ signErr = "none"
    /\ now < TicksPerSec
    /\ LET r == SignResult(signer, u, now + l) IN
        /\ signer' = [signer EXCEPT !.hash = r.hash, !.dirty = r.dirty]
        /\ signErr' = r.err
        /\ signed' = r.text
        /\ sum' = r.sum
        /\ cur' = r.text
    /\ unsigned' = u
    /\ lifespan' = l
    /\ signedAt' = now
    /\ UNCHANGED <<now, tamper, verdict, decoded>>
    /\ UNCHANGED otherVars

\* the holder changes the signed URL, right after it was signed
Changed(kind, text) ==
    /\ signErr = ""
    /\ now = signedAt
    /\ tamper = "none"
    /\ verdict = "none"
    /\ text # signed
    /\ cur' = text
    /\ tamper' = kind
    /\ UNCHANGED <<signer, now, unsigned, lifespan, signedAt, signErr, signed, sum,
                   verdict, decoded>>
    /\ UNCHANGED otherVars

\* one character of the signature is replaced by another
TamperSignature ==
    \E i \in 1..EncodedLen :
        \E c \in {"X", "$", Base64Char(sum, i, 1)} :
            /\ signErr = ""
            /\ Changed("signature",
                       WithSignature(signer, signed,
                            ReplaceAt(EmbeddedSignature(signer, signed), i, c)))

\* the expiry text is replaced by that of the next second, or by another text
\* of the same second
TamperExpiry ==
    /\ signErr = ""
    /\ LET encodedExpiry == intEncoding_Encode(signer, Unix(signedAt + lifespan))
           zero == IF signer.intEncoding = "base58"
                   THEN FlickrAlphabet[1] ELSE DecimalDigits[1]
       IN  \E other \in { intEncoding_Encode(signer, Unix(signedAt + lifespan) + 1),
                          <<zero>> \o encodedExpiry } :
                Changed("expiry", WithExpiry(signer, signed, encodedExpiry, other))

AddParam ==
    \E q \in { <<<<"page", <<"2">>>>>> \o signed.query,
               signed.query \o <<<<"page", <<"2">>>>>> } :
        Changed("addParam", [signed EXCEPT !.query = q])

RemoveParam ==
    \E i \in Others(signed.query) :
        Changed("removeParam", [signed EXCEPT !.query = Remove(@, i)])

ChangeParam ==
    \E i \in Others(signed.query) :
        Changed("changeParam", [signed EXCEPT !.query[i][2] = <<"7">>])

SwapParams ==
    \E i \in Others(signed.query) :
        \E j \in Others(signed.query) :
            /\ i < j
            /\ Changed("swapParams", [signed EXCEPT !.query = Swap(@, i, j)])

ChangeHost == Changed("host", [signed EXCEPT !.host = "example.org"])

\* the original path is continued, or its last character replaced
ChangePath ==
    \/ Changed("path", [signed EXCEPT !.path = @ \o <<"/", "x">>])
    \/ /\ Len(unsigned.path) > 1
       /\ Changed("path", [signed EXCEPT !.path = ReplaceAt(@, Len(@), "x")])

ChangeScheme == Changed("scheme", [signed EXCEPT !.scheme = "http"])

\* the prefix is left out of the path, or its last character replaced
ChangePrefix ==
    /\ signer.prefix # <<>>
    /\ \/ Changed("prefix", [signed EXCEPT !.path = From(@, Len(signer.prefix))])
       \/ Changed("prefix", [signed EXCEPT !.path = ReplaceAt(@, Len(signer.prefix), "x")])

\* under the path formatter, the slash between the prefix and the signature
\* is replaced by another character
ChangeSlash ==
    /\ signer.prefix # <<>>
    /\ signer.formatter = "path"
    /\ signErr = ""
    /\ \E c \in {".", "x"} :
            Changed("slash", [signed EXCEPT !.path = ReplaceAt(@, SigOffset(signer), c)])

\* the signature parameter is left out of the query
RemoveSignature ==
    /\ signer.formatter = "query"
    /\ signErr = ""
    /\ Changed("removeSignature",
               [signed EXCEPT !.query = Remove(@, LastIndexOf(@, "signature"))])

\* signer.Verify(f) of a URL that was not signed, on a Signer not yet used
VerifyForeign(f) ==
    /\ signErr = "none"
    /\ LET r == VerifyResult(signer, f, now) IN
        /\ signer' = [signer EXCEPT !.hash = r.hash, !.dirty = r.dirty]
        /\ verdict' = r.err
        /\ decoded' = r.expiry
    /\ signErr' = "foreign"
    /\ cur' = f
    /\ tamper' = "foreign"
    /\ UNCHANGED <<now, unsigned, lifespan, signedAt, signed, sum>>
    /\ UNCHANGED otherVars

\* signer.Verify(cur)
VerifyURL ==
    /\ signErr = ""
    /\ verdict = "none"
    /\ LET r == VerifyResult(signer, cur, now) IN
        /\ signer' = [signer EXCEPT !.hash = r.hash, !.dirty = r.dirty]
        /\ verdict' = r.err
        /\ decoded' = r.expiry
    /\ UNCHANGED <<now, unsigned, lifespan, signedAt, signErr, signed, sum, cur,
                   tamper>>
    /\ UNCHANGED otherVars

Next ==
    \/ Tick
    \/ \E u \in UnsignedURLs : \E l \in Lifespans : SignURL(u, l)
    \/ TamperSignature
    \/ TamperExpiry
    \/ AddParam
    \/ RemoveParam
    \/ ChangeParam
    \/ SwapParams
    \/ ChangeHost
    \/ ChangePath
    \/ ChangeScheme
    \/ ChangePrefix
    \/ ChangeSlash
    \/ RemoveSignature
    \/ VerifyURL
    \/ \E f \in ForeignURLs : VerifyForeign(f)

Spec == Init /\ [][Next]_vars

(***************************************************************************)
(* Signer.sign, statement by statement, called by several goroutines on    *)
(* one Signer: each call of Sign or Verify that gets as far calls it once,  *)
(* with its payload.                                                       *)
(***************************************************************************)
\* the payloads the goroutines sign: those of the URLs of the model
Payloads ==
    { Bytes(buildPayload(New(Key, <<>>),
                addExpiry(New(Key, <<>>), ParseRequestURI(u).u, <<"1">>))) :
        u \in {v \in UnsignedURLs : ~ParseRequestURI(v).err /\ v.query = <<>>} }

signVars_noEnc == <<now, unsigned, lifespan, signedAt, signErr, signed, sum, cur,
                    tamper, verdict, decoded, givenKey, peerKey, applied,
                    fmt>>

signVars == <<signVars_noEnc, enc>>

\* a goroutine calls s.sign(d)
Call(g, d) ==
    /\ pc[g] = "idle"
    /\ pc' = [pc EXCEPT ![g] = "Lock"]
    /\ data' = [data EXCEPT ![g] = d]
    /\ result' = [result EXCEPT ![g] = ""]
    /\ UNCHANGED <<signer, mu, signVars>>

\* s.mu.Lock(), had it not waited for the mutex
Lock_noWait(g) ==
    /\ pc[g] = "Lock"
    /\ mu' = g
    /\ pc' = [pc EXCEPT ![g] = "Reset"]
    /\ UNCHANGED <<signer, data, result, signVars>>

\* s.mu.Lock(): the goroutine waits until no other holds the mutex
Lock(g) ==
    /\ pc[g] = "Lock"
    /\ mu = 0
    /\ mu' = g
    /\ pc' = [pc EXCEPT ![g] = "Reset"]
    /\ UNCHANGED <<signer, data, result, signVars>>

\* if s.dirty { s.hash.Reset() }
Reset(g) ==
    /\ pc[g] = "Reset"
    /\ signer' = IF signer.dirty THEN [signer EXCEPT !.hash = ""] ELSE signer
    /\ pc' = [pc EXCEPT ![g] = "dirty"]
    /\ UNCHANGED <<mu, data, result, signVars>>

\* s.dirty = true
SetDirty(g) ==
    /\ pc[g] = "dirty"
    /\ signer' = [signer EXCEPT !.dirty = TRUE]
    /\ pc' = [pc EXCEPT ![g] = "Write"]
    /\ UNCHANGED <<mu, data, result, signVars>>

\* s.hash.Write(data)
Write(g) ==
    /\ pc[g] = "Write"
    /\ signer' = [signer EXCEPT !.hash = @ \o data[g]]
    /\ pc' = [pc EXCEPT ![g] = "Sum"]
    /\ UNCHANGED <<mu, data, result, signVars>>

\* return s.hash.Sum(nil)
SumHash(g) ==
    /\ pc[g] = "Sum"
    /\ result' = [result EXCEPT ![g] = Sum(signer.key, signer.hash)]
    /\ pc' = [pc EXCEPT ![g] = "Unlock"]
    /\ UNCHANGED <<signer, mu, data, signVars>>

\* defer s.mu.Unlock()
Unlock(g) ==
    /\ pc[g] = "Unlock"
    /\ mu' = IF mu = g THEN 0 ELSE mu
    /\ pc' = [pc EXCEPT ![g] = "done"]
    /\ UNCHANGED <<signer, data, result, signVars>>

\* the caller goes on with the digest, and may call again
Return(g) ==
    /\ pc[g] = "done"
    /\ pc' = [pc EXCEPT ![g] = "idle"]
    /\ UNCHANGED <<signer, mu, data, result, signVars>>

ConcInit ==
    /\ givenKey = Key
    /\ peerKey = Key
    /\ Idle
    /\ Unapplied
    /\ applied = <<>>
    /\ signer = New(Key, <<>>)
    /\ Unused

ConcNext ==
    \E g \in Goroutines :
        \/ \E d \in Payloads : Call(g, d)
        \/ Lock(g)
        \/ Reset(g)
        \/ SetDirty(g)
        \/ Write(g)
        \/ SumHash(g)
        \/ Unlock(g)
        \/ Return(g)

ConcSpec == ConcInit /\ [][ConcNext]_vars

(***************************************************************************)
(* Signers made with long keys: a Signer signs and verifies, and another   *)
(* Signer, made with another key and the same options, is at hand.         *)
(***************************************************************************)
\* a key of KeySize bytes
FullKey == [i \in 1..KeySize |-> "k"]

\* keys of KeySize bytes and more: FullKey, longer keys that begin with it,
\* and a longer key that differs from it in its last byte of the first
\* KeySize
LongKeys ==
    { FullKey,
      FullKey \o <<"a">>,
      FullKey \o <<"b", "c">>,
      [FullKey EXCEPT ![KeySize] = "j"] \o <<"a">> }

\* the option lists of the Signers made with them
LongKeyOptionLists ==
    { <<>>, <<WithPathFormatter, WithBase58Expiry, SkipQuery, PrefixPath(<<"/", "s">>)>> }

KeyInit ==
    /\ givenKey \in LongKeys
    /\ peerKey \in LongKeys
    /\ Idle
    /\ Unapplied
    /\ applied \in LongKeyOptionLists
    /\ signer = New(givenKey, applied)
    /\ Unused

KeySpec == KeyInit /\ [][Next]_vars

(***************************************************************************)
(* The construction alone: the loop of New over the caller's options,      *)
(* which may repeat and contradict each other.                             *)
(***************************************************************************)
Options ==
    {SkipQuery, SkipScheme, WithQueryFormatter, WithPathFormatter,
     WithDecimalExpiry, WithBase58Expiry}
        \cup {PrefixPath(p) : p \in Prefixes}

OptInit ==
    /\ givenKey = Key
    /\ peerKey = Key
    /\ Idle
    /\ Unapplied
    /\ applied = <<>>
    /\ signer = New(Key, <<>>)
    /\ Unused

\* o(s), for the next of the caller's options
ApplyOption(o) ==
    /\ Len(applied) < MaxOptions
    /\ applied' = Append(applied, o)
    /\ signer' = Apply(signer, o)
    /\ UNCHANGED <<now, unsigned, lifespan, signedAt, signErr, signed, sum, cur,
                   tamper, verdict, decoded, givenKey, peerKey, mu, pc, data,
                   result, enc, fmt>>

OptNext == \E o \in Options : ApplyOption(o)

OptSpec == OptInit /\ [][OptNext]_vars

(***************************************************************************)
(* The formatters alone: the four steps Sign and Verify take with a URL,   *)
(* an encoded expiry and an encoded signature.                             *)
(***************************************************************************)
Formatters == {"query", "path"}

\* the URLs of the model that url.ParseRequestURI takes
ParsedURLs == {ParseRequestURI(x).u : x \in {y \in UnsignedURLs : ~ParseRequestURI(y).err}}

EncodedExpiries == {<<"1">>, <<"9">>}

EncodedSignatures == {<<"a", "b", "c">>, <<"X", "Y", "Z">>}

FmtInit ==
    /\ givenKey = Key
    /\ peerKey = Key
    /\ Idle
    /\ enc = NoEnc
    /\ applied = <<>>
    /\ signer = New(Key, <<>>)
    /\ Unused
    /\ \E f \in Formatters, u \in ParsedURLs, e \in EncodedExpiries,
          s \in EncodedSignatures :
            fmt = [NoFmt EXCEPT !.at = "given", !.formatter = f, !.expiry = e,
                                !.sig = s, !.given = u, !.u = u]

\* one step of a formatter, to the record next
FmtStep(from, next) ==
    /\ fmt.at = from
    /\ fmt.err = ""
    /\ fmt' = next
    /\ UNCHANGED <<signer, mu, pc, data, result, enc, now, unsigned, lifespan,
                   signedAt, signErr, signed, sum, cur, tamper, verdict,
                   decoded, givenKey, peerKey, applied>>

FmtAddExpiry ==
    LET u == addExpiry(fmt, fmt.u, fmt.expiry) IN
    FmtStep("given", [fmt EXCEPT !.at = "addExpiry", !.u = u, !.withExpiry = u])

FmtAddSignature ==
    FmtStep("addExpiry", [fmt EXCEPT !.at = "addSignature",
                                     !.u = addSignature(fmt, fmt.u, fmt.sig)])

FmtExtractSignature ==
    LET x == extractSignature(fmt, fmt.u) IN
    FmtStep("addSignature", [fmt EXCEPT !.at = "extractSignature", !.u = x.u,
                                        !.err = x.err, !.gotSig = x.text])

FmtExtractExpiry ==
    LET x == extractExpiry(fmt, fmt.u) IN
    FmtStep("extractSignature", [fmt EXCEPT !.at = "extractExpiry", !.u = x.u,
                                            !.err = x.err, !.gotExpiry = x.text])

FmtNext ==
    \/ FmtAddExpiry
    \/ FmtAddSignature
    \/ FmtExtractSignature
    \/ FmtExtractExpiry

FmtSpec == FmtInit /\ [][FmtNext]_vars

(***************************************************************************)
(* The encoders alone: an int64 that is not negative is given to one of    *)
(* the two encoders a Signer may embed, and the text is given back to it.  *)
(***************************************************************************)
\* 3507595200, the integer of int_encoding_test.go
TestedInt == <<35, 759, 5200>>

Int64s ==
    {ToLimbs(n) : n \in 0..MaxInt}
        \cup {ToLimbs(58 * 58), ToLimbs(58 * 58 * 58), ToLimbs(LimbBase),
              ToLimbs(2147483647), TestedInt, MaxInt64}

Encodings == {"decimal", "base58"}

EncInit ==
    /\ givenKey = Key
    /\ peerKey = Key
    /\ Idle
    /\ applied = <<>>
    /\ signer = New(Key, <<>>)
    /\ Unused
    /\ fmt = NoFmt
    /\ \E e \in Encodings, x \in Int64s :
            enc = [NoEnc EXCEPT !.at = "given", !.encoding = e, !.input = x]

\* intEncoding.Encode(i)
EncodeInt ==
    /\ enc.at = "given"
    /\ enc' = [enc EXCEPT !.at = "encoded",
                          !.text = IF enc.encoding = "base58"
                                   THEN EncodeUint64(enc.input)
                                   ELSE FormatInt(enc.input)]
    /\ UNCHANGED <<signer, mu, pc, data, result, signVars_noEnc>>

\* intEncoding.Decode(text)
DecodeInt ==
    /\ enc.at = "encoded"
    /\ LET d == IF enc.encoding = "base58" THEN DecodeUint64(enc.text)
                ELSE ParseInt(enc.text)
       IN  enc' = [enc EXCEPT !.at = "decoded", !.err = d.err \/ d.neg,
                              !.output = d.val]
    /\ UNCHANGED <<signer, mu, pc, data, result, signVars_noEnc>>

EncNext == EncodeInt \/ DecodeInt

EncSpec == EncInit /\ [][EncNext]_vars


(***************************************************************************)
(* The properties of Sign and Verify.                                      *)
(***************************************************************************)
\* Verify has returned, for the URL in the holder's hands at the time now
Verified == verdict # "none"

\* the signed URL is verified as Sign returned it, at the time it was signed
Immediately == Verified /\ tamper = "none" /\ now = signedAt

\* the signed URL, as Sign returned it, verifies at the time now
StillValid == VerifyResult(signer, signed, now).err = "ok"

QueryChanges == {"addParam", "removeParam", "changeParam", "swapParams"}

\* C1: a URL signed with an expiry strictly in the future verifies when Verify
\* is called immediately after Sign on the same Signer, whatever the
\* formatter, the expiry encoder, skip-query, skip-scheme and the path prefix.
RoundTrip == (Immediately /\ lifespan > 0) => verdict = "ok"

\* C2: once a single character of the embedded signature of a signed URL is
\* replaced by a different character, Verify fails with ErrInvalidSignature,
\* under both formatters; stated of the signed URLs that verify unchanged.
SignatureTamperDetected ==
    (Verified /\ tamper = "signature" /\ lifespan > 0 /\ StillValid)
        => verdict = "ErrInvalidSignature"

\* C3: once the encoded expiry text of a signed URL is changed to another
\* value, Verify fails with ErrInvalidSignature, in every configuration.
ExpiryTamperDetected ==
    (Verified /\ tamper = "expiry") => verdict = "ErrInvalidSignature"

\* C4: with skip-query off, once a query parameter other than expiry and
\* signature is added, removed or changed, or the host or the original path
\* is changed, Verify fails with ErrInvalidSignature.
UrlTamperDetected ==
    (/\ Verified
     /\ ~signer.payloadOptions.skipQuery
     /\ tamper \in {"addParam", "removeParam", "changeParam", "host", "path"})
        => verdict = "ErrInvalidSignature"

\* C4, its case: such a change was made with skip-query off and Verify
\* rejected the signature
UrlTamperRejected ==
    /\ Verified
    /\ ~signer.payloadOptions.skipQuery
    /\ tamper \in {"addParam", "removeParam", "changeParam", "host", "path"}
    /\ verdict = "ErrInvalidSignature"

\* C5: for a URL whose signature is valid, Verify fails with ErrExpired
\* exactly when the decoded expiry is at or before the current time, and
\* succeeds only when the expiry is after it.
ExpiredAtOrAfterExpiry ==
    verdict \in {"ok", "ErrExpired"}
        => (verdict = "ErrExpired" <=> decoded * TicksPerSec <= now)

\* C6: a URL signed with a lifespan of zero and verified immediately yields
\* ErrExpired, never ok; stated of the URLs whose signature Verify accepts.
ZeroLifespanExpired ==
    (Immediately /\ lifespan = 0 /\ verdict \in {"ok", "ErrExpired"})
        => verdict = "ErrExpired"

\* C7: with skip-query off, once two query parameters other than expiry and
\* signature are swapped in a signed URL, Verify fails with
\* ErrInvalidSignature, under the query formatter as well as the path
\* formatter; stated of the URLs signed with an expiry in the future.
QueryOrderSignificant ==
    (/\ Verified
     /\ ~signer.payloadOptions.skipQuery
     /\ tamper = "swapParams"
     /\ lifespan > 0) => verdict = "ErrInvalidSignature"

\* C8: with skip-query on, a signed URL that verifies still verifies after
\* its query parameters other than expiry and signature are reordered, added,
\* removed or changed, under both formatters.
SkippedQueryMayChange ==
    (/\ Verified
     /\ signer.payloadOptions.skipQuery
     /\ tamper \in QueryChanges
     /\ StillValid) => verdict = "ok"

\* C8, its case: the query was changed with skip-query on and Verify accepted
\* the URL
SkippedQueryChangedVerifies ==
    /\ Verified
    /\ signer.payloadOptions.skipQuery
    /\ tamper \in QueryChanges
    /\ StillValid
    /\ verdict = "ok"

\* C9: with skip-scheme off, once the scheme of a signed URL is changed from
\* https to http, Verify fails with ErrInvalidSignature.
SchemeSignificant ==
    (Verified /\ ~signer.payloadOptions.skipScheme /\ tamper = "scheme")
        => verdict = "ErrInvalidSignature"

\* C9, its case: the scheme was changed with skip-scheme off and Verify
\* rejected the signature
SchemeChangeRejected ==
    /\ Verified
    /\ ~signer.payloadOptions.skipScheme
    /\ tamper = "scheme"
    /\ cur.scheme = "http"
    /\ verdict = "ErrInvalidSignature"

\* C10: with skip-scheme on, a signed URL that verifies still verifies after
\* its scheme is changed from https to http, under both formatters.
SkippedSchemeMayChange ==
    (/\ Verified
     /\ signer.payloadOptions.skipScheme
     /\ tamper = "scheme"
     /\ lifespan > 0
     /\ StillValid) => verdict = "ok"

\* C11: a Signer with a path prefix rejects with ErrInvalidFormat every URL
\* whose path does not start with the prefix, before it extracts a signature
\* or uses the hash: a Signer that never signed is left with a clean hash.
PrefixEnforced ==
    (Verified /\ signer.prefix # <<>> /\ ~HasPrefix(cur.path, signer.prefix))
        => /\ verdict = "ErrInvalidFormat"
           /\ tamper = "foreign" => (~signer.dirty /\ signer.hash = "")

\* C11, its case: a URL without the prefix was rejected by a Signer that
\* never signed, and one whose prefix the holder changed by the Signer that
\* signed it
PrefixMissingRejected ==
    /\ Verified
    /\ signer.prefix # <<>>
    /\ signer.formatter = "path"
    /\ ~HasPrefix(cur.path, signer.prefix)
    /\ tamper \in {"foreign", "prefix"}
    /\ verdict = "ErrInvalidFormat"

\* the Signer as New made it, with the prefix p in place of its own
Prefixed(p) == [signer EXCEPT !.prefix = p, !.hash = "", !.dirty = FALSE]

\* C12: the prefix is not part of the signed payload: Signers that differ in
\* their prefix only (none included) compute the same signature for the same
\* URL and expiry.
PrefixNotSigned ==
    signErr = ""
        => \A p \in Prefixes :
                SignResult(Prefixed(p), unsigned, signedAt + lifespan).sum = sum

\* C12, its case: a Signer with a prefix has signed a URL, whose signature is
\* that of the Signer without a prefix
PrefixedSignatureSame ==
    /\ signErr = ""
    /\ signer.prefix # <<>>
    /\ sum # ""
    /\ SignResult(Prefixed(<<>>), unsigned, signedAt + lifespan).sum = sum

\* C13: with a prefix, the path of the signed URL is the prefix followed by
\* the path the formatter made, which begins with the slash between the two
\* and holds the original path unchanged, trailing slash included.
PrefixJoined ==
    (signErr = "" /\ signer.prefix # <<>>)
        => signed.path = signer.prefix
                \o SignResult(Prefixed(<<>>), unsigned, signedAt + lifespan).text.path

\* the URL text parsed and its prefix removed, as Verify does first
Stripped(s, text) == [ParseRequestURI(text).u EXCEPT !.Path = From(@, Len(s.prefix))]

\* the URL text carries a signature under the prefix of the Signer
SignaturePresent(s, text) ==
    /\ ~ParseRequestURI(text).err
    /\ HasPrefix(text.path, s.prefix)
    /\ extractSignature(s, Stripped(s, text)).err = ""

\* the signature the URL text carries decodes to the digest of the payload
\* of the rest of the URL
SignatureMatches(s, text) ==
    LET es == extractSignature(s, Stripped(s, text))
        sig == DecodeString(es.text)
    IN  /\ SignaturePresent(s, text)
        /\ ~sig.err
        /\ ConstantTimeCompare(sig, sign(s, Bytes(buildPayload(s, es.u))).sum)

\* C14: Verify compares the signatures before it looks at the expiry: it
\* returns ErrExpired or an expiry decode error only for a URL whose
\* signature equals the recomputed one, and ErrInvalidSignature for every
\* URL whose signature differs from it, expired or not.
SignatureBeforeExpiry ==
    /\ verdict \in {"ErrExpired", "DecodeError"} => SignatureMatches(signer, cur)
    /\ (Verified /\ SignaturePresent(signer, cur) /\ ~SignatureMatches(signer, cur))
            => verdict = "ErrInvalidSignature"

\* C14, its case: a URL whose host was changed is verified after its expiry
\* and rejected for its signature
ExpiredTamperedRejected ==
    /\ Verified
    /\ tamper = "host"
    /\ After(now, Unix(signedAt + lifespan))
    /\ ~SignatureMatches(signer, cur)
    /\ verdict = "ErrInvalidSignature"

\* the signature text the URL carries
Presented(s, text) == extractSignature(s, Stripped(s, text)).text

\* the text is not unpadded URL-safe base64
Undecodable(sig) == (\E i \in 1..Len(sig) : sig[i] \in NotBase64) \/ Len(sig) % 4 = 1

\* C15: Verify returns ErrInvalidSignature when the signature text is not
\* valid unpadded URL-safe base64, and also when it decodes but differs from
\* the recomputed signature (as /MIC.1/f under the path formatter).
InvalidSignatureReported ==
    (Verified /\ SignaturePresent(signer, cur))
        => /\ Undecodable(Presented(signer, cur)) => verdict = "ErrInvalidSignature"
           /\ (/\ ~Undecodable(Presented(signer, cur))
               /\ ~SignatureMatches(signer, cur)) => verdict = "ErrInvalidSignature"

\* C15, its case: a URL with a signature that is not base64 was rejected for
\* its signature, the hash unused
UndecodableRejected ==
    /\ Verified
    /\ tamper = "foreign"
    /\ SignaturePresent(signer, cur)
    /\ Undecodable(Presented(signer, cur))
    /\ verdict = "ErrInvalidSignature"
    /\ ~signer.dirty

\* the query has a parameter of that key
HasParam(q, key) == \E i \in 1..Len(q) : q[i][1] = key

\* C16: under the query formatter, Verify of a URL without a signature
\* parameter fails with ErrInvalidFormat, whether or not the URL has an
\* expiry parameter.
MissingSignatureReported ==
    (Verified /\ signer.formatter = "query" /\ ~HasParam(cur.query, "signature"))
        => verdict = "ErrInvalidFormat"

\* C16, its case: a signed URL whose signature parameter was removed, its
\* expiry parameter left, was rejected for its format
SignatureRemovedRejected ==
    /\ Verified
    /\ signer.formatter = "query"
    /\ tamper = "removeSignature"
    /\ ~HasParam(cur.query, "signature")
    /\ HasParam(cur.query, "expiry")
    /\ verdict = "ErrInvalidFormat"

\* Sign has returned
Signed == signErr \notin {"none", "foreign"}

\* the text is neither an absolute URL nor an absolute path
NotAbsolute(text) ==
    text.scheme = "" /\ (text.path = <<>> \/ text.path[1] # "/")

\* C17: Sign returns an error and no URL for an input that is neither an
\* absolute URL nor an absolute path (the empty text, cod), and leaves the
\* hash context and the dirty flag as they were.
InvalidInputRejected ==
    (Signed /\ NotAbsolute(unsigned))
        => /\ signErr = "InvalidURL"
           /\ signed = NoText
           /\ sum = ""
           /\ ~signer.dirty
           /\ signer.hash = ""

\* C17, its case: Sign was given cod and returned an error
NotAUrlRejected ==
    /\ Signed
    /\ unsigned.path = <<"c", "o", "d">>
    /\ NotAbsolute(unsigned)
    /\ signErr = "InvalidURL"
    /\ signed = NoText

\* the bytes Sign signed: the payload of the unsigned URL with its expiry
SignPayload ==
    Bytes(buildPayload(signer,
            addExpiry(signer, ParseRequestURI(unsigned).u,
                      intEncoding_Encode(signer, Unix(signedAt + lifespan)))))

\* the bytes Verify signs: the payload of the URL in the holder's hands,
\* its prefix and signature removed
VerifyPayload ==
    Bytes(buildPayload(signer, extractSignature(signer, Stripped(signer, cur)).u))

\* Verify got as far as to recompute the signature
Recomputed ==
    /\ Verified
    /\ SignaturePresent(signer, cur)
    /\ ~Undecodable(Presented(signer, cur))

\* C18: in a sequence of Sign and Verify calls on one Signer, each sign
\* returns the keyed hash of exactly its payload: the digest Sign embedded is
\* that of its payload, and after a Verify the context holds the bytes of the
\* payload of that Verify and no byte of an earlier one.
HistoryIndependent ==
    /\ signErr = "" => sum = Sum(signer.key, SignPayload)
    /\ Recomputed => (signer.dirty /\ signer.hash = VerifyPayload)
    /\ (Recomputed /\ verdict \in {"ok", "ErrExpired"})
            => \E low \in TrailingValues :
                    Presented(signer, cur)[EncodedLen]
                        = Base64Char(Sum(signer.key, VerifyPayload), EncodedLen, low)

\* C18, its case: Verify has signed a payload other than the one Sign had
\* signed before it on the same Signer
OtherPayloadSigned ==
    /\ signErr = ""
    /\ Recomputed
    /\ VerifyPayload # SignPayload
    /\ signer.hash = VerifyPayload

\* the goroutines between Lock and Unlock of Signer.sign
InSign == {g \in Goroutines : pc[g] \in {"Reset", "dirty", "Write", "Sum", "Unlock"}}

\* C19: when several goroutines call Sign and Verify on one Signer, at most
\* one at a time is between the Lock and the Unlock of Signer.sign, and each
\* obtains the digest it would obtain alone on a new Signer, in every
\* interleaving.
SignSerialized ==
    /\ Cardinality(InSign) <= 1
    /\ \A g \in Goroutines :
            pc[g] = "done" => result[g] = sign(New(Key, <<>>), data[g]).sum

\* C19, its case: a goroutine has its digest while another, with another
\* payload, is in Signer.sign on a context the first left dirty
SignedOneAfterAnother ==
    \E g \in Goroutines : \E h \in Goroutines :
        /\ pc[g] = "done"
        /\ result[g] = Sum(signer.key, data[g])
        /\ pc[h] = "Sum"
        /\ data[h] # data[g]

\* the first KeySize bytes of a key
Truncated(k) == IF Len(k) > KeySize THEN SubSeq(k, 1, KeySize) ELSE k

\* the other Signer: made by New with peerKey and the options of the Signer
Peer == [New(peerKey, <<>>) EXCEPT !.prefix = signer.prefix,
                                   !.payloadOptions = signer.payloadOptions,
                                   !.formatter = signer.formatter,
                                   !.intEncoding = signer.intEncoding]

\* C20: New with a key of more than 64 bytes makes the Signer that New makes
\* with the first 64 bytes of the key; two Signers whose keys agree on their
\* first 64 bytes make the same signed URL and the same signature, and each
\* gives the other's verdict on a URL.
KeyTruncated ==
    /\ signer.key = New(Truncated(givenKey), <<>>).key
    /\ Truncated(givenKey) = Truncated(peerKey)
        => /\ signErr = ""
                => /\ SignResult(Peer, unsigned, signedAt + lifespan).text = signed
                   /\ SignResult(Peer, unsigned, signedAt + lifespan).sum = sum
           /\ Verified => VerifyResult(Peer, cur, now).err = verdict

\* C20, its case: a Signer made with a key of more than 64 bytes signed a
\* URL, which the Signer made with another key of the same first 64 bytes
\* accepts
LongKeyAccepted ==
    /\ Len(givenKey) > KeySize
    /\ Len(peerKey) > KeySize
    /\ givenKey # peerKey
    /\ Truncated(givenKey) = Truncated(peerKey)
    /\ Verified
    /\ tamper = "none"
    /\ verdict = "ok"
    /\ VerifyResult(Peer, cur, now).err = "ok"

(***************************************************************************)
(* The integer encoders.                                                   *)
(***************************************************************************)
Text_3507595200 == <<"3", "5", "0", "7", "5", "9", "5", "2", "0", "0">>

Text_6kXkRj == <<"6", "k", "X", "k", "R", "j">>

\* C21: an int64 that is not negative is decoded, without an error, from the
\* text either encoder made of it: the decimal one and the base58 one with
\* Flickr's alphabet.  3507595200 is "3507595200" in decimal and "6kXkRj" in
\* base58.  Below 2^31 the encoders of a Signer make and read the same texts.
IntRoundTrip ==
    /\ enc.at = "decoded" => ~enc.err /\ enc.output = enc.input
    /\ enc.at \in {"encoded", "decoded"} /\ enc.input = TestedInt =>
            enc.text = IF enc.encoding = "base58" THEN Text_6kXkRj
                       ELSE Text_3507595200
    /\ enc.at \in {"encoded", "decoded"} /\ Len(enc.input) = 1 =>
            LET s == [intEncoding |-> enc.encoding]
                d == intEncoding_Decode(s, enc.text)
            IN  /\ intEncoding_Encode(s, enc.input[1]) = enc.text
                /\ ~d.err /\ d.val = enc.input[1]

IntRoundTripped ==
    /\ enc.at = "decoded" /\ enc.encoding = "base58"
    /\ enc.input = TestedInt /\ enc.text = Text_6kXkRj
    /\ ~enc.err /\ enc.output = TestedInt

(***************************************************************************)
(* The configuration of a Signer.                                          *)
(***************************************************************************)
RECURSIVE LastOf(_, _, _)
\* the last of the options of opts that is named in names, or none
LastOf(opts, names, none) ==
    IF opts = <<>> THEN none
    ELSE IF opts[Len(opts)].name \in names THEN opts[Len(opts)]
    ELSE LastOf(SubSeq(opts, 1, Len(opts) - 1), names, none)

Given(opts, name) == \E i \in 1..Len(opts) : opts[i].name = name

\* C22: a Signer made with no options has the query formatter, the decimal
\* encoding, no skip flag and no prefix; of the formatter options given, and
\* of the encoding options given, the last one decides, and an option given
\* decides against the default.
ConfiguredByOptions ==
    LET s == New(givenKey, applied)
        f == LastOf(applied, {"WithQueryFormatter", "WithPathFormatter"},
                    WithQueryFormatter)
        e == LastOf(applied, {"WithDecimalExpiry", "WithBase58Expiry"},
                    WithDecimalExpiry)
        p == LastOf(applied, {"PrefixPath"}, PrefixPath(<<>>))
    IN  /\ signer.formatter = s.formatter
        /\ signer.intEncoding = s.intEncoding
        /\ signer.payloadOptions = s.payloadOptions
        /\ signer.prefix = s.prefix
        /\ s.formatter = IF f = WithPathFormatter THEN "path" ELSE "query"
        /\ s.intEncoding = IF e = WithBase58Expiry THEN "base58" ELSE "decimal"
        /\ s.payloadOptions.skipQuery = Given(applied, "SkipQuery")
        /\ s.payloadOptions.skipScheme = Given(applied, "SkipScheme")
        /\ s.prefix = p.prefix

ConflictingOptionsGiven ==
    /\ applied = <<WithPathFormatter, WithBase58Expiry, WithQueryFormatter>>
    /\ signer.formatter = "query" /\ signer.intEncoding = "base58"

(***************************************************************************)
(* The frame of the skip flags.                                            *)
(***************************************************************************)
Skipping == signer.payloadOptions.skipQuery \/ signer.payloadOptions.skipScheme

\* C23: a URL signed by a Signer that skips the query or the scheme has the
\* scheme it was given with and every query parameter it was given with: the
\* flags change the payload and not the URL.
SkipFlagsLeaveURL ==
    Signed /\ Skipping =>
        /\ signed.scheme = unsigned.scheme
        /\ \A i \in 1..Len(unsigned.query) :
                \E j \in 1..Len(signed.query) : signed.query[j] = unsigned.query[i]

SkippingSigned ==
    /\ Signed
    /\ signer.payloadOptions.skipQuery /\ signer.payloadOptions.skipScheme
    /\ unsigned.query = << <<"page", <<"1">>>>, <<"foo", <<"2">>>> >>
    /\ signed.scheme = "https"
    /\ \E j \in 1..Len(signed.query) : signed.query[j] = <<"page", <<"1">>>>
    /\ \E j \in 1..Len(signed.query) : signed.query[j] = <<"foo", <<"2">>>>

(***************************************************************************)
(* The four steps of a formatter.                                          *)
(***************************************************************************)
\* C24: for both formatters, after addExpiry(u, e) and addSignature(u, s),
\* extractSignature returns s and leaves the URL as addExpiry had left it, and
\* extractExpiry then returns e and leaves the URL with the query it was
\* given with (query formatter, its parameters as Encode writes them) or the
\* path it was given with (path formatter).
FormatterRoundTrip ==
    /\ fmt.at \in {"extractSignature", "extractExpiry"} =>
            /\ fmt.err = ""
            /\ fmt.gotSig = fmt.sig
            /\ fmt.at = "extractSignature" => fmt.u = fmt.withExpiry
    /\ fmt.at = "extractExpiry" =>
            /\ fmt.gotExpiry = fmt.expiry
            /\ fmt.formatter = "query" =>
                    fmt.u = [fmt.given EXCEPT !.RawQuery = Encode(@)]
            /\ fmt.formatter = "path" => fmt.u = fmt.given

\* the URLs with which the four steps are known not to round trip: those with
\* a parameter named signature or expiry under the query formatter, and that
\* without a path under the path formatter
NotRoundTripping ==
    \/ /\ fmt.formatter = "query"
       /\ \E i \in 1..Len(fmt.given.RawQuery) :
              fmt.given.RawQuery[i][1] \in {"signature", "expiry"}
    \/ fmt.formatter = "path" /\ fmt.given.Path = <<>>

FormatterRoundTripElsewhere == NotRoundTripping \/ FormatterRoundTrip

(***************************************************************************)
(* The ends of Verify.                                                     *)
(***************************************************************************)
\* C26: Verify ends, for every URL and every Signer, with success or with a
\* returned error, and never with a panic: not even, under the path formatter,
\* for a path with nothing, after the prefix, before its first full stop.
VerifyTotal == verdict # "panic"

\* Verify returns an error and does not panic for every URL whose path, after
\* the prefix, does not begin with a full stop
VerifyTotalElsewhere ==
    verdict = "panic" =>
        /\ signer.formatter = "path"
        /\ signer.prefix # <<>>
        /\ cur.path[SigOffset(signer)] = "."

(***************************************************************************)
(* The URL without a path, under the path formatter.                       *)
(***************************************************************************)
\* a URL without a path was signed under the path formatter, to expire later
EmptyPathSigned ==
    /\ signErr = ""
    /\ signer.formatter = "path"
    /\ unsigned.path = <<>>
    /\ lifespan > 0

\* C27: under the path formatter, an absolute URL without a path, signed to
\* expire later and verified at once as Sign returned it, verifies.
EmptyPathRoundTrip == EmptyPathSigned /\ Immediately => verdict = "ok"

\* Verify finds the signature of such a URL right and returns the error of
\* extractExpiry
EmptyPathInvalidFormat ==
    EmptyPathSigned /\ Immediately =>
        verdict = "ErrInvalidFormat" /\ SignatureMatches(signer, cur)

(***************************************************************************)
(* The URL that has a parameter named expiry or signature.                 *)
(***************************************************************************)
\* a URL with a parameter named expiry or signature was signed under the
\* query formatter, and verified as Sign returned it
PresetParamVerified ==
    /\ signErr = ""
    /\ signer.formatter = "query"
    /\ HasParam(unsigned.query, "expiry") \/ HasParam(unsigned.query, "signature")
    /\ Verified
    /\ tamper = "none"

\* C28: under the query formatter, a signed URL that already had a parameter
\* named expiry or signature is verified by the signature and the expiry Sign
\* added: Verify finds the signature right and decodes the expiry the URL was
\* signed with.
PresetParamsRoundTrip ==
    PresetParamVerified =>
        /\ verdict \in {"ok", "ErrExpired"}
        /\ decoded = Unix(signedAt + lifespan)

\* Verify takes the URL's own parameter: its signature is found wrong, or its
\* expiry is the one decoded
PresetParamTaken ==
    PresetParamVerified =>
        IF HasParam(unsigned.query, "signature")
        THEN verdict = "ErrInvalidSignature"
        ELSE /\ verdict = "ok"
             /\ decoded = intEncoding_Decode(signer, Get(unsigned.query, "expiry")).val

(***************************************************************************)
(* The slash between the prefix and the signature.                         *)
(***************************************************************************)
\* C29: under the path formatter with a prefix, a signed URL in which the
\* slash between the prefix and the signature was replaced by another
\* character, before its expiry, does not verify.
SlashRequired == Verified /\ tamper = "slash" /\ lifespan > 0 => verdict # "ok"

\* Verify drops the character after the prefix unseen: with another character
\* than a full stop in the place of the slash, it returns what it returns for
\* the URL as it was signed
SlashIgnored ==
    Verified /\ tamper = "slash" /\ cur.path[SigOffset(signer)] # "." =>
        verdict = VerifyResult(signer, signed, now).err

(***************************************************************************)
(* Verify and the clock.                                                   *)
(***************************************************************************)
\* the times of the model
Times == 0..MaxTime

\* what Verify returns for the URL in the holder's hands at each time: the
\* pairs of a time and an outcome
VerdictAt == {<<t, VerifyResult(signer, cur, t).err>> : t \in Times}

\* C30: for one Signer and one URL, Verify returns what VerdictAt tells for
\* the time of the call; once it returns ErrExpired at a time it returns
\* ErrExpired at every later time, a URL that verifies at a time verifies at
\* every earlier time, and every other outcome is the same at all times.
ExpiryPermanent ==
    LET v == VerdictAt IN
    /\ Verified => <<now, verdict>> \in v
    /\ \A a \in v : \A b \in v :
            a[1] <= b[1] =>
                /\ a[2] = "ErrExpired" => b[2] = "ErrExpired"
                /\ b[2] = "ok" => a[2] = "ok"
                /\ a[2] \notin {"ok", "ErrExpired"} => b[2] = a[2]
                /\ b[2] \notin {"ok", "ErrExpired"} => a[2] = b[2]

ExpiredLater ==
    /\ Verified /\ verdict = "ErrExpired"
    /\ tamper = "none"
    /\ <<signedAt, "ok">> \in VerdictAt
    /\ now > signedAt

=============================================================================
